---- MODULE Spec2Model ----
(***************************************************************************)
(* Model of src/lib/recognizer/recognizer.js: the Recognizer of nlp.js for *)
(* the Microsoft Bot Framework.                                            *)
(*                                                                         *)
(* JavaScript values.  A string is a tuple of one-character strings, so    *)
(* that startsWith, substring and answer[0] are computed, not assumed.     *)
(* The value undefined is the tuple <<"undefined">> and the boolean true   *)
(* is <<"true">>: neither is a string, as its element is not a character.  *)
(* An object is a function from its possible keys to values; a key that is *)
(* absent reads as Undefined, as in JavaScript.                            *)
(* Scores are in tenths: 7 is 0.7.                                         *)
(***************************************************************************)
EXTENDS Integers, Sequences, FiniteSets, TLC

Undefined == <<"undefined">>
True == <<"true">>

NONE == <<"N", "o", "n", "e">>
GREET == <<"g", "r", "e", "e", "t">>
ANN == <<"A", "n", "n">>
BOB == <<"B", "o", "b">>
HELLO == <<"h", "i">>
HELP == <<"/", "H">>
EMPTY == <<>>

\* dialog ids on the host's dialog stack
LIBI == <<"l", ":", "i">>
MAIN == <<"*", ":", "m">>
NEXT == <<"*", ":", "n">>
STAR == <<"*">>
BARE == <<"*", ":">>
\* a dialogId stamped by a turn before the ones modelled
OLD == <<"o">>

\* this.threshold = this.settings.threshold || 0.7
Threshold == 7
\* setBot(bot, activateRouting = false, routingThreshold = 0.7)
DefaultRoutingThreshold == 7

\* ---------------------------------------------------------------- bounds
\* concurrent recognize calls of one conversation
NumTurns == 2
\* longest entity list the engine returns
MaxEntities == 2

Turns == 1..NumTurns

\* ------------------------------------------------------------ value sets
Names == {"name", "city"}
Options == {ANN, BOB}
Keys == {"dialogId", "$modified"} \cup Names
Entities == [entity : Names, option : Options]

EmptyContext == [k \in Keys |-> Undefined]

EntityLists(n) == UNION {[1..l -> Entities] : l \in 0..n}

Responses(scores, intents, lists, answers) ==
    [score : scores, intent : intents, entities : lists, answer : answers]

\* JavaScript truthiness of the values of this model
Truthy(v) == v # Undefined /\ v # EMPTY

\* JavaScript property read: an absent property reads as undefined
Field(obj, f) == IF f \in DOMAIN obj THEN obj[f] ELSE Undefined

\* ------------------------------------------------------- Recognizer.process
\* line 87: response.score < this.threshold || response.intent === 'None'
RejectedNever(response) == FALSE
RejectedNoIntentTest(response) == response.score < Threshold
Rejected(response) == response.score < Threshold \/ response.intent = NONE

\* lines 91-95: the loop over response.entities, from index i on
RECURSIVE MergeFirstWins(_, _, _)
MergeFirstWins(context, entities, i) ==
    IF i > Len(entities) THEN context
    ELSE MergeFirstWins(
             IF context[entities[i].entity] = Undefined
             THEN [context EXCEPT ![entities[i].entity] = entities[i].option,
                                  !["$modified"] = True]
             ELSE [context EXCEPT !["$modified"] = True],
             entities, i + 1)

RECURSIVE MergeEntities(_, _, _)
MergeEntities(context, entities, i) ==
    IF i > Len(entities) THEN context
    ELSE MergeEntities(
             [context EXCEPT ![entities[i].entity] = entities[i].option,
                             !["$modified"] = True],
             entities, i + 1)

\* lines 87-96: the response process returns
ProcessResponse(response) ==
    IF Rejected(response) THEN [response EXCEPT !.answer = Undefined]
    ELSE response

\* lines 87-96: the context object after process returned
ProcessContextFresh(context, response) ==
    IF Rejected(response) THEN context
    ELSE MergeEntities(EmptyContext, response.entities, 1)
ProcessContext(context, response) ==
    IF Rejected(response) THEN context
    ELSE MergeEntities(context, response.entities, 1)

\* ---------------------------------------------------- Recognizer.getDialogId
\* dialogId.startsWith('*:')
StartsWithPrefix(dialogId) ==
    Len(dialogId) >= 2 /\ dialogId[1] = "*" /\ dialogId[2] = ":"

\* lines 120-126: the scan from index i
RECURSIVE ScanStackLast(_, _)
ScanStackLast(stack, i) ==
    IF i > Len(stack) THEN EMPTY
    ELSE LET later == ScanStackLast(stack, i + 1)
         IN  IF later # EMPTY THEN later
             ELSE IF StartsWithPrefix(stack[i])
                  THEN SubSeq(stack[i], 3, Len(stack[i]))
                  ELSE EMPTY

RECURSIVE ScanStack(_, _)
ScanStack(stack, i) ==
    IF i > Len(stack) THEN EMPTY
    ELSE IF StartsWithPrefix(stack[i])
         THEN SubSeq(stack[i], 3, Len(stack[i]))
         ELSE ScanStack(stack, i + 1)

\* session.dialogStack absent: the session value has no stack accessor
NoStack == <<Undefined>>

GetDialogId(session) ==
    IF session.stack = NoStack THEN EMPTY
    ELSE ScanStack(session.stack, 1)

\* session && session.message && session.message.text
HasTextOrEmpty(session) == session.msg \in {"text", "empty"}
HasText(session) == session.msg = "text"


\* --------------------------------------------------------------- the state
VARIABLES
    storeAliases,  \* the injected store hands out its own object (TRUE) or a copy
    cbMayRaise,    \* the callbacks the host passes to the recognizer may raise
    stored,        \* the context the store holds for the conversation
    pc,            \* each call's position in recognize / recognizeUtterance
    kind,          \* how each call was entered
    session,       \* each call's session (turn)
    ctx,           \* each call's context object, when it is not the store's
    aliased,       \* each call's context object is the store's own object
    result,        \* each call's processResult
    getLog,        \* getConversationContext calls of each call, with outcome
    engineLog,     \* nlpManager.process calls of each call
    setLog,        \* contexts handed to setConversationContext by each call
    cbLog,         \* invocations of each call's callback
    bot,           \* the host: recognizer registered, the activateRouting
                   \* setBot got, the override installed in its
                   \* disambiguation slot and the override's threshold
    hooks,         \* the four optional routing hooks of the recognizer
    hookLog,       \* hooks called for each call
    actLog         \* routing primitives invoked for each call

vars == <<storeAliases, cbMayRaise, stored, pc, kind, session, ctx, aliased, result,
          getLog, engineLog, setLog, cbLog, bot, hooks, hookLog, actLog>>

HookNames == {"onBeginRouting", "onRecognizedRouting",
              "onUnrecognizedRouting", "onNoTextRouting"}

NoResponse == [score |-> 0, intent |-> Undefined, entities |-> <<>>,
               answer |-> Undefined]

\* line 135: const result = { score: 0.0, intent: undefined }
NeutralResultNone == [score |-> 0, intent |-> NONE]
NeutralResult == [score |-> 0, intent |-> Undefined]

\* ConversationContextStore (./memory-conversation-context and any store the
\* settings inject): getConversationContext resolves with the store's own
\* object or with a copy of it, and a resolved setConversationContext leaves
\* the store holding the context it was handed
StoreKeeps(context) == IF storeAliases THEN stored ELSE context

\* the context object a call works on
CtxOf(t) == IF aliased[t] THEN stored ELSE ctx[t]

LastCall(t) == engineLog[t][Len(engineLog[t])]

\* a call of nlpManager.process with the given context (lines 85-86)
EngineCalled(t, context) ==
    engineLog' = [engineLog EXCEPT ![t] =
        Append(@, [context |-> context, status |-> "pending",
                   response |-> NoResponse])]

\* the pending call of nlpManager.process completes
EngineCompleted(t, status, response) ==
    engineLog' = [engineLog EXCEPT ![t][Len(engineLog[t])] =
        [@ EXCEPT !.status = status, !.response = response]]

\* ------------------------------------------------------------- routing
\* lines 184-189
ProcessAnswerAlwaysSend(answer) == <<[op |-> "send", arg |-> answer]>>
ProcessAnswer(answer) ==
    IF Len(answer) > 0 /\ answer[1] = "/"
    THEN <<[op |-> "beginDialog", arg |-> answer]>>
    ELSE <<[op |-> "send", arg |-> answer]>>

\* lines 170-177: bestRouteResult(results, stack, name) found a route or not
DefaultRoutingActiveOnly(s) == <<[op |-> "routeToActiveDialog", arg |-> EMPTY]>>
DefaultRouting(s) ==
    IF s.route THEN <<[op |-> "selectRoute", arg |-> EMPTY]>>
    ELSE <<[op |-> "routeToActiveDialog", arg |-> EMPTY]>>

\* self.onX && !self.onX(...): the hook is present and returns a falsy value
VetoesNever(h) == FALSE
Vetoes(h) == hooks[h] = "falsy"
Called(h) == IF hooks[h] = "absent" THEN <<>> ELSE <<h>>

\* line 212
OverRoutingThresholdGeq(res) ==
    /\ res.score >= bot.routingThreshold
    /\ Truthy(Field(res, "answer"))
    /\ Field(res, "answer") # EMPTY
OverRoutingThreshold(res) ==
    /\ res.score > bot.routingThreshold
    /\ Truthy(Field(res, "answer"))
    /\ Field(res, "answer") # EMPTY

\* lines 211-222: the callback disambiguate hands to recognize
RoutingCallbackFallsThrough(s, res) ==
    IF OverRoutingThreshold(res)
    THEN [hooks |-> Called("onRecognizedRouting")
                        \o Called("onUnrecognizedRouting"),
          acts  |-> (IF Vetoes("onRecognizedRouting") THEN <<>>
                     ELSE ProcessAnswer(res.answer))
                    \o (IF Vetoes("onUnrecognizedRouting") THEN <<>>
                        ELSE DefaultRouting(s))]
    ELSE [hooks |-> Called("onUnrecognizedRouting"),
          acts  |-> IF Vetoes("onUnrecognizedRouting") THEN <<>>
                    ELSE DefaultRouting(s)]

RoutingCallback(s, res) ==
    IF OverRoutingThreshold(res)
    THEN [hooks |-> Called("onRecognizedRouting"),
          acts  |-> IF Vetoes("onRecognizedRouting") THEN <<>>
                    ELSE ProcessAnswer(res.answer)]
    ELSE [hooks |-> Called("onUnrecognizedRouting"),
          acts  |-> IF Vetoes("onUnrecognizedRouting") THEN <<>>
                    ELSE DefaultRouting(s)]

\* n successive invocations cb(null, res) of call t's callback
Deliver(t, res, n) ==
    /\ cbLog' = [cbLog EXCEPT ![t] =
           @ \o [i \in 1..n |-> [err |-> "null", result |-> res]]]
    /\ IF kind[t] = "disambiguate"
       THEN /\ hookLog' = [hookLog EXCEPT ![t] =
                   @ \o RoutingCallback(session[t], res).hooks]
            /\ actLog' = [actLog EXCEPT ![t] =
                   @ \o RoutingCallback(session[t], res).acts]
       ELSE UNCHANGED <<hookLog, actLog>>

\* a host callback may raise; the routing callback of lines 211-222 does
\* not: the hooks and the host's routing primitives return normally
MayThrow(t) ==
    IF kind[t] = "disambiguate" \/ ~cbMayRaise THEN {FALSE} ELSE BOOLEAN

\* ------------------------------------------------------------- recognize
\* lines 134-139 and 159: the synchronous part of recognize(session, cb)
RecognizeBody(t, s, throws) ==
    /\ session' = [session EXCEPT ![t] = s]
    /\ IF HasText(s)
       THEN /\ getLog' = [getLog EXCEPT ![t] = Append(@, "pending")]
            /\ pc' = [pc EXCEPT ![t] = "loading"]
            /\ UNCHANGED <<cbLog, hookLog, actLog>>
       ELSE /\ Deliver(t, NeutralResult, 1)
            /\ pc' = [pc EXCEPT ![t] = IF throws THEN "threw" ELSE "done"]
            /\ UNCHANGED getLog
    /\ UNCHANGED <<storeAliases, cbMayRaise, stored, ctx, aliased, result, engineLog,
                   setLog, bot, hooks>>

\* the host calls the registered recognizer
Recognize(t, s) ==
    /\ pc[t] = "idle"
    /\ kind' = [kind EXCEPT ![t] = "recognize"]
    /\ \E throws \in BOOLEAN :
           /\ (throws => ~HasText(s) /\ cbMayRaise)
           /\ RecognizeBody(t, s, throws)

\* lines 139-143: getConversationContext resolved; the then-handler stamps
\* dialogId on the object it got and calls process, which calls the engine
LoadResolve(t) ==
    /\ pc[t] = "loading"
    /\ LET loaded == [stored EXCEPT !["dialogId"] = GetDialogId(session[t])]
       IN  /\ aliased' = [aliased EXCEPT ![t] = storeAliases]
           /\ IF storeAliases
              THEN stored' = loaded /\ UNCHANGED ctx
              ELSE ctx' = [ctx EXCEPT ![t] = loaded] /\ UNCHANGED stored
           /\ EngineCalled(t, loaded)
    /\ getLog' = [getLog EXCEPT ![t][Len(getLog[t])] = "resolved"]
    /\ pc' = [pc EXCEPT ![t] = "engine"]
    /\ UNCHANGED <<storeAliases, cbMayRaise, kind, session, result, setLog,
                   cbLog, bot, hooks, hookLog, actLog>>

\* line 154: the {} the catch handler passes to process
FallbackContextStored == stored
FallbackContext == EmptyContext

\* lines 153-154: the catch handler calls process({}, locale, utterance)
Fallback(t) ==
    /\ aliased' = [aliased EXCEPT ![t] = FALSE]
    /\ ctx' = [ctx EXCEPT ![t] = FallbackContext]
    /\ pc' = [pc EXCEPT ![t] = "fbEngine"]

\* getConversationContext rejected
LoadReject(t) ==
    /\ pc[t] = "loading"
    /\ Fallback(t)
    /\ EngineCalled(t, FallbackContext)
    /\ getLog' = [getLog EXCEPT ![t][Len(getLog[t])] = "rejected"]
    /\ UNCHANGED <<storeAliases, cbMayRaise, stored, kind, session, result,
                   setLog, cbLog, bot, hooks, hookLog, actLog>>

\* lines 87-96 in the then-handler's call: the engine resolved with r
EngineResolve(t, r) ==
    /\ pc[t] = "engine"
    /\ EngineCompleted(t, "resolved", r)
    /\ result' = [result EXCEPT ![t] = ProcessResponse(r)]
    /\ IF aliased[t]
       THEN stored' = ProcessContext(stored, r) /\ UNCHANGED ctx
       ELSE ctx' = [ctx EXCEPT ![t] = ProcessContext(@, r)] /\ UNCHANGED stored
    /\ pc' = [pc EXCEPT ![t] = "processed"]
    /\ UNCHANGED <<storeAliases, cbMayRaise, kind, session, aliased, getLog, setLog,
                   cbLog, bot, hooks, hookLog, actLog>>

\* the engine rejected inside the then-handler: the handler's promise
\* rejects and the catch handler of line 153 runs
EngineRejectEscapes(t) ==
    /\ pc[t] = "engine"
    /\ EngineCompleted(t, "rejected", NoResponse)
    /\ pc' = [pc EXCEPT ![t] = "unhandled"]
    /\ UNCHANGED <<storeAliases, cbMayRaise, stored, kind, session, ctx,
                   aliased, result, getLog, setLog, cbLog, bot, hooks,
                   hookLog, actLog>>

EngineReject(t) ==
    /\ pc[t] = "engine"
    /\ Fallback(t)
    /\ engineLog' = [engineLog EXCEPT ![t] =
           Append([@ EXCEPT ![Len(@)].status = "rejected"],
                  [context |-> FallbackContext, status |-> "pending",
                   response |-> NoResponse])]
    /\ UNCHANGED <<storeAliases, cbMayRaise, stored, kind, session, result, getLog,
                   setLog, cbLog, bot, hooks, hookLog, actLog>>

\* line 145: delete context.$modified
StripNothing(context) == context
StripMarker(context) == [context EXCEPT !["$modified"] = Undefined]

\* lines 144-149: process returned and the marker is set
ContinueSaveEager(t) ==
    /\ pc[t] = "processed"
    /\ Truthy(CtxOf(t)["$modified"])
    /\ LET stripped == StripMarker(CtxOf(t))
       IN  /\ IF aliased[t]
              THEN stored' = stripped /\ UNCHANGED ctx
              ELSE ctx' = [ctx EXCEPT ![t] = stripped] /\ UNCHANGED stored
           /\ setLog' = [setLog EXCEPT ![t] =
                  Append(@, [context |-> stripped, status |-> "pending"])]
    /\ Deliver(t, result[t], 1)
    /\ pc' = [pc EXCEPT ![t] = "saving"]
    /\ UNCHANGED <<storeAliases, cbMayRaise, kind, session, aliased, result, getLog,
                   engineLog, bot, hooks>>

ContinueSave(t) ==
    /\ pc[t] = "processed"
    /\ Truthy(CtxOf(t)["$modified"])
    /\ LET stripped == StripMarker(CtxOf(t))
       IN  /\ IF aliased[t]
              THEN stored' = stripped /\ UNCHANGED ctx
              ELSE ctx' = [ctx EXCEPT ![t] = stripped] /\ UNCHANGED stored
           /\ setLog' = [setLog EXCEPT ![t] =
                  Append(@, [context |-> stripped, status |-> "pending"])]
    /\ pc' = [pc EXCEPT ![t] = "saving"]
    /\ UNCHANGED <<storeAliases, cbMayRaise, kind, session, aliased, result, getLog,
                   engineLog, cbLog, bot, hooks, hookLog, actLog>>

\* line 151: process returned and the marker is not set; a callback that
\* raises rejects the then-handler's promise, which the catch handler gets
ContinueDirect(t) ==
    /\ pc[t] = "processed"
    /\ ~Truthy(CtxOf(t)["$modified"])
    /\ Deliver(t, result[t], 1)
    /\ \E throws \in MayThrow(t) :
           IF throws
           THEN /\ Fallback(t)
                /\ EngineCalled(t, FallbackContext)
           ELSE /\ pc' = [pc EXCEPT ![t] = "done"]
                /\ UNCHANGED <<ctx, aliased, engineLog>>
    /\ UNCHANGED <<storeAliases, cbMayRaise, stored, kind, session, result, getLog,
                   setLog, bot, hooks>>

\* line 147: setConversationContext resolved; if the callback raises, the
\* catch of line 148 invokes it again
SaveResolve(t) ==
    /\ pc[t] = "saving"
    /\ stored' = StoreKeeps(setLog[t][Len(setLog[t])].context)
    /\ setLog' = [setLog EXCEPT ![t][Len(setLog[t])].status = "resolved"]
    /\ \E throws1 \in MayThrow(t), throws2 \in MayThrow(t) :
           /\ (throws2 => throws1)
           /\ Deliver(t, result[t], IF throws1 THEN 2 ELSE 1)
           /\ pc' = [pc EXCEPT ![t] = IF throws2 THEN "unhandled" ELSE "done"]
    /\ UNCHANGED <<storeAliases, cbMayRaise, kind, session, ctx, aliased,
                   result, getLog, engineLog, bot, hooks>>

\* line 148: setConversationContext rejected
SaveRejectEscapes(t) ==
    /\ pc[t] = "saving"
    /\ setLog' = [setLog EXCEPT ![t][Len(setLog[t])].status = "rejected"]
    /\ pc' = [pc EXCEPT ![t] = "unhandled"]
    /\ UNCHANGED <<storeAliases, cbMayRaise, stored, kind, session, ctx,
                   aliased, result, getLog, engineLog, cbLog, bot, hooks,
                   hookLog, actLog>>

SaveReject(t) ==
    /\ pc[t] = "saving"
    /\ setLog' = [setLog EXCEPT ![t][Len(setLog[t])].status = "rejected"]
    /\ \E throws \in MayThrow(t) :
           /\ Deliver(t, result[t], 1)
           /\ pc' = [pc EXCEPT ![t] = IF throws THEN "unhandled" ELSE "done"]
    /\ UNCHANGED <<storeAliases, cbMayRaise, stored, kind, session, ctx,
                   aliased, result, getLog, engineLog, bot, hooks>>

\* lines 154-155: the engine resolved in the catch handler
FallbackResolveSilent(t, r) ==
    /\ pc[t] = "fbEngine"
    /\ EngineCompleted(t, "resolved", r)
    /\ result' = [result EXCEPT ![t] = ProcessResponse(r)]
    /\ ctx' = [ctx EXCEPT ![t] = ProcessContext(@, r)]
    /\ pc' = [pc EXCEPT ![t] = "done"]
    /\ UNCHANGED <<storeAliases, cbMayRaise, stored, kind, session, aliased, getLog,
                   setLog, cbLog, bot, hooks, hookLog, actLog>>

FallbackResolve(t, r) ==
    /\ pc[t] = "fbEngine"
    /\ EngineCompleted(t, "resolved", r)
    /\ result' = [result EXCEPT ![t] = ProcessResponse(r)]
    /\ ctx' = [ctx EXCEPT ![t] = ProcessContext(@, r)]
    /\ \E throws \in MayThrow(t) :
           /\ Deliver(t, ProcessResponse(r), 1)
           /\ pc' = [pc EXCEPT ![t] = IF throws THEN "unhandled" ELSE "done"]
    /\ UNCHANGED <<storeAliases, cbMayRaise, stored, kind, session, aliased, getLog,
                   setLog, bot, hooks>>

\* line 154: the engine rejected in the catch handler; nothing handles it
FallbackReject(t) ==
    /\ pc[t] = "fbEngine"
    /\ EngineCompleted(t, "rejected", NoResponse)
    /\ pc' = [pc EXCEPT ![t] = "unhandled"]
    /\ UNCHANGED <<storeAliases, cbMayRaise, stored, kind, session, ctx, aliased, result,
                   getLog, setLog, cbLog, bot, hooks, hookLog, actLog>>


\* ------------------------------------------------------ recognizeUtterance
\* lines 105-106 and 84-86: process(model, ...) with the caller's object, or
\* a fresh {} when the caller gave none
RecognizeUtterance(t, given, model) ==
    /\ pc[t] = "idle"
    /\ kind' = [kind EXCEPT ![t] = "utterance"]
    /\ LET context == IF given THEN model ELSE EmptyContext
       IN  /\ ctx' = [ctx EXCEPT ![t] = context]
           /\ EngineCalled(t, context)
    /\ pc' = [pc EXCEPT ![t] = "uEngine"]
    /\ UNCHANGED <<storeAliases, cbMayRaise, stored, session, aliased, result, getLog,
                   setLog, cbLog, bot, hooks, hookLog, actLog>>

\* lines 87-96 and 107: the engine resolved; cb(null, response)
UtteranceResolve(t, r) ==
    /\ pc[t] = "uEngine"
    /\ EngineCompleted(t, "resolved", r)
    /\ result' = [result EXCEPT ![t] = ProcessResponse(r)]
    /\ ctx' = [ctx EXCEPT ![t] = ProcessContext(@, r)]
    /\ \E throws \in MayThrow(t) :
           /\ Deliver(t, ProcessResponse(r), 1)
           /\ pc' = [pc EXCEPT ![t] = IF throws THEN "rejected" ELSE "done"]
    /\ UNCHANGED <<storeAliases, cbMayRaise, stored, kind, session, aliased, getLog,
                   setLog, bot, hooks>>

\* line 106: the engine rejected; recognizeUtterance's promise rejects
UtteranceReject(t) ==
    /\ pc[t] = "uEngine"
    /\ EngineCompleted(t, "rejected", NoResponse)
    /\ pc' = [pc EXCEPT ![t] = "rejected"]
    /\ UNCHANGED <<storeAliases, cbMayRaise, stored, kind, session, ctx, aliased, result,
                   getLog, setLog, cbLog, bot, hooks, hookLog, actLog>>

\* ------------------------------------------------------------------ setBot
\* lines 199-206
SetBotAlwaysInstalls(activateRouting, routingThreshold) ==
    /\ ~bot.recognizer
    /\ bot' = [recognizer |-> TRUE,
               activateRouting |-> activateRouting,
               override |-> TRUE,
               routingThreshold |-> routingThreshold]
    /\ UNCHANGED <<storeAliases, cbMayRaise, stored, pc, kind, session, ctx, aliased,
                   result, getLog, engineLog, setLog, cbLog, hooks, hookLog,
                   actLog>>

SetBot(activateRouting, routingThreshold) ==
    /\ ~bot.recognizer
    /\ bot' = [recognizer |-> TRUE,
               activateRouting |-> activateRouting,
               override |-> activateRouting,
               routingThreshold |-> IF activateRouting THEN routingThreshold
                                    ELSE DefaultRoutingThreshold]
    /\ UNCHANGED <<storeAliases, cbMayRaise, stored, pc, kind, session, ctx, aliased,
                   result, getLog, engineLog, setLog, cbLog, hooks, hookLog,
                   actLog>>

\* lines 206-230: the host invokes the installed override
Disambiguate(t, s) ==
    /\ pc[t] = "idle"
    /\ bot.override
    /\ kind' = [kind EXCEPT ![t] = "disambiguate"]
    /\ session' = [session EXCEPT ![t] = s]
    /\ IF Vetoes("onBeginRouting")
       THEN /\ hookLog' = [hookLog EXCEPT ![t] = @ \o Called("onBeginRouting")]
            /\ pc' = [pc EXCEPT ![t] = "done"]
            /\ UNCHANGED <<getLog, actLog>>
       ELSE IF HasText(s)
       THEN /\ hookLog' = [hookLog EXCEPT ![t] = @ \o Called("onBeginRouting")]
            /\ getLog' = [getLog EXCEPT ![t] = Append(@, "pending")]
            /\ pc' = [pc EXCEPT ![t] = "loading"]
            /\ UNCHANGED actLog
       ELSE /\ hookLog' = [hookLog EXCEPT ![t] =
                   @ \o Called("onBeginRouting") \o Called("onNoTextRouting")]
            /\ actLog' = [actLog EXCEPT ![t] =
                   @ \o IF Vetoes("onNoTextRouting") THEN <<>>
                        ELSE DefaultRouting(s)]
            /\ pc' = [pc EXCEPT ![t] = "done"]
            /\ UNCHANGED getLog
    /\ UNCHANGED <<storeAliases, cbMayRaise, stored, ctx, aliased, result, engineLog,
                   setLog, cbLog, bot, hooks>>

\* ------------------------------------------------------------ input sets
Stacks == {NoStack, <<>>, <<LIBI, MAIN>>, <<NEXT, MAIN>>, <<LIBI, STAR>>,
           <<BARE, MAIN>>}

Sessions(msgs, stacks, routes) == [msg : msgs, stack : stacks, route : routes]

\* entity lists one shorter than the longest, with one option only
ShortLists ==
    {l \in EntityLists(MaxEntities - 1) : \A i \in 1..Len(l) : l[i].option = ANN}

NoSession == [msg |-> "nosession", stack |-> NoStack, route |-> FALSE]

\* concurrent turns: few responses, so that the interleavings stay checkable
MainSessions ==
    {s \in Sessions({"empty", "text"}, {NoStack, <<LIBI, MAIN>>}, {FALSE}) :
         HasText(s) <=> s.stack # NoStack}
MainLists == {<<>>} \cup {<<e>> : e \in [entity : Names, option : {ANN}]}
MainResponses == Responses({4, 8}, {NONE, GREET}, MainLists, {HELLO})

\* process alone: every response shape and every starting context
AllResponses ==
    Responses({4, 7, 8}, {NONE, GREET}, EntityLists(MaxEntities),
              {Undefined, HELLO})
\* contexts a store can hold: entity values of earlier turns, a dialogId of
\* an earlier turn, never the marker
Contexts ==
    {c \in [Keys -> Options \cup {Undefined, OLD}] :
         /\ c["dialogId"] \in {Undefined, OLD}
         /\ c["$modified"] = Undefined
         /\ \A n \in Names : c[n] # OLD}
\* objects a caller of recognizeUtterance can pass: any of these, also one
\* that carries the marker already
CallerContexts ==
    Contexts \cup {[c EXCEPT !["$modified"] = True] : c \in Contexts}

\* one turn alone
TurnSessions ==
    {s \in Sessions({"nosession", "nomessage", "notext", "empty", "text"},
                    Stacks, {FALSE}) :
         ~HasText(s) => s.stack = NoStack}
TurnResponses ==
    Responses({4, 7, 8}, {NONE, GREET}, ShortLists, {Undefined, HELLO})

\* routing: one turn, every hook configuration and answer shape
RoutingSessions ==
    Sessions({"nomessage", "empty", "text"}, {<<LIBI, MAIN>>}, BOOLEAN)
RoutingResponses ==
    Responses({4, 7, 8}, {NONE, GREET}, ShortLists,
              {Undefined, EMPTY, HELLO, HELP})
RoutingThresholds == {3, DefaultRoutingThreshold}

\* ------------------------------------------------------ the specifications
InitCommon ==
    /\ stored = EmptyContext
    /\ pc = [t \in Turns |-> "idle"]
    /\ kind = [t \in Turns |-> "none"]
    /\ session = [t \in Turns |-> NoSession]
    /\ ctx = [t \in Turns |-> EmptyContext]
    /\ aliased = [t \in Turns |-> FALSE]
    /\ result = [t \in Turns |-> NoResponse]
    /\ getLog = [t \in Turns |-> <<>>]
    /\ engineLog = [t \in Turns |-> <<>>]
    /\ setLog = [t \in Turns |-> <<>>]
    /\ cbLog = [t \in Turns |-> <<>>]
    /\ hookLog = [t \in Turns |-> <<>>]
    /\ actLog = [t \in Turns |-> <<>>]
    /\ bot = [recognizer |-> FALSE, activateRouting |-> FALSE,
              override |-> FALSE,
              routingThreshold |-> DefaultRoutingThreshold]

\* Spec: concurrent recognize calls of one conversation, with callbacks
\* that return
Init ==
    /\ InitCommon
    /\ storeAliases \in BOOLEAN
    /\ cbMayRaise = FALSE
    /\ hooks = [h \in HookNames |-> "absent"]

Next ==
    \E t \in Turns :
        \/ \E s \in MainSessions : Recognize(t, s)
        \/ LoadResolve(t)
        \/ LoadReject(t)
        \/ \E r \in MainResponses : EngineResolve(t, r)
        \/ EngineReject(t)
        \/ ContinueSave(t)
        \/ ContinueDirect(t)
        \/ SaveResolve(t)
        \/ SaveReject(t)
        \/ \E r \in MainResponses : FallbackResolve(t, r)
        \/ FallbackReject(t)

Spec == Init /\ [][Next]_vars

\* SpecTurn: one recognize call, with every session and response shape, any
\* persisted context to start from, and a callback that may raise
InitTurn ==
    /\ stored \in Contexts
    /\ pc = [t \in Turns |-> "idle"]
    /\ kind = [t \in Turns |-> "none"]
    /\ session = [t \in Turns |-> NoSession]
    /\ ctx = [t \in Turns |-> EmptyContext]
    /\ aliased = [t \in Turns |-> FALSE]
    /\ result = [t \in Turns |-> NoResponse]
    /\ getLog = [t \in Turns |-> <<>>]
    /\ engineLog = [t \in Turns |-> <<>>]
    /\ setLog = [t \in Turns |-> <<>>]
    /\ cbLog = [t \in Turns |-> <<>>]
    /\ hookLog = [t \in Turns |-> <<>>]
    /\ actLog = [t \in Turns |-> <<>>]
    /\ bot = [recognizer |-> FALSE, activateRouting |-> FALSE,
              override |-> FALSE,
              routingThreshold |-> DefaultRoutingThreshold]
    /\ storeAliases \in BOOLEAN
    /\ cbMayRaise \in BOOLEAN
    /\ hooks = [h \in HookNames |-> "absent"]

NextTurn ==
    \/ \E s \in TurnSessions : Recognize(1, s)
    \/ LoadResolve(1)
    \/ LoadReject(1)
    \/ \E r \in TurnResponses : EngineResolve(1, r)
    \/ EngineReject(1)
    \/ ContinueSave(1)
    \/ ContinueDirect(1)
    \/ SaveResolve(1)
    \/ SaveReject(1)
    \/ \E r \in TurnResponses : FallbackResolve(1, r)
    \/ FallbackReject(1)

SpecTurn == InitTurn /\ [][NextTurn]_vars

\* SpecProcess: process called through recognizeUtterance
InitProcess ==
    /\ InitCommon
    /\ storeAliases = FALSE
    /\ cbMayRaise = TRUE
    /\ hooks = [h \in HookNames |-> "absent"]

NextProcess ==
    \/ \E given \in BOOLEAN, model \in CallerContexts :
           /\ (~given => model = EmptyContext)
           /\ RecognizeUtterance(1, given, model)
    \/ \E r \in AllResponses : UtteranceResolve(1, r)
    \/ UtteranceReject(1)

SpecProcess == InitProcess /\ [][NextProcess]_vars

\* SpecRouting: one turn through the host, after setBot
InitRouting ==
    /\ InitCommon
    /\ storeAliases = FALSE
    /\ cbMayRaise = FALSE
    /\ hooks \in [HookNames -> {"absent", "truthy", "falsy"}]

NextRouting ==
    \/ \E a \in BOOLEAN, rt \in RoutingThresholds : SetBot(a, rt)
    \/ \E s \in RoutingSessions : Disambiguate(1, s)
    \/ \E s \in RoutingSessions : bot.recognizer /\ Recognize(1, s)
    \/ LoadResolve(1)
    \/ LoadReject(1)
    \/ \E r \in RoutingResponses : EngineResolve(1, r)
    \/ EngineReject(1)
    \/ ContinueSave(1)
    \/ ContinueDirect(1)
    \/ SaveResolve(1)
    \/ SaveReject(1)
    \/ \E r \in RoutingResponses : FallbackResolve(1, r)
    \/ FallbackReject(1)

SpecRouting == InitRouting /\ [][NextRouting]_vars

\* SpecLive: one recognize call on a turn with text, where every external
\* call that was made completes and every promise reaction that is ready
\* runs
LiveSessions == {s \in MainSessions : HasText(s)}

InitLive ==
    /\ InitCommon
    /\ storeAliases \in BOOLEAN
    /\ cbMayRaise \in BOOLEAN
    /\ hooks = [h \in HookNames |-> "absent"]

LoadCompletes == LoadResolve(1) \/ LoadReject(1)
EngineCompletes == (\E r \in MainResponses : EngineResolve(1, r)) \/ EngineReject(1)
Continues == ContinueSave(1) \/ ContinueDirect(1)
SaveCompletes == SaveResolve(1) \/ SaveReject(1)
FallbackCompletes ==
    (\E r \in MainResponses : FallbackResolve(1, r)) \/ FallbackReject(1)

NextLive ==
    \/ \E s \in LiveSessions : Recognize(1, s)
    \/ LoadCompletes
    \/ EngineCompletes
    \/ Continues
    \/ SaveCompletes
    \/ FallbackCompletes

Fairness ==
    /\ WF_vars(LoadCompletes)
    /\ WF_vars(EngineCompletes)
    /\ WF_vars(Continues)
    /\ WF_vars(SaveCompletes)
    /\ WF_vars(FallbackCompletes)

SpecLive == InitLive /\ [][NextLive]_vars /\ Fairness


\* ================================================================ claims
\* helpers of the claims: what the source says of a response, written
\* without the operators of the model
NamesOf(entities) == {entities[i].entity : i \in 1..Len(entities)}

LastIndex(entities, name) ==
    CHOOSE i \in 1..Len(entities) :
        /\ entities[i].entity = name
        /\ \A j \in (i + 1)..Len(entities) : entities[j].entity # name

BelowOrNone(r) == r.score < Threshold \/ r.intent = NONE

ExpectedResult(r) ==
    [r EXCEPT !.answer = IF BelowOrNone(r) THEN Undefined ELSE r.answer]

\* process has returned for the call recognizeUtterance made
ProcessReturned(t) ==
    /\ kind[t] = "utterance"
    /\ engineLog[t] # <<>>
    /\ LastCall(t).status = "resolved"

\* C1: when the engine's response has score < threshold or intent 'None',
\* the result process returns has no answer and the context object holds
\* the same keys and values as when process was called: no entity key and
\* no marker is written.
C1_RejectedLeavesContext ==
    \A t \in Turns :
        (ProcessReturned(t) /\ BelowOrNone(LastCall(t).response)) =>
            /\ result[t].answer = Undefined
            /\ \A i \in 1..Len(cbLog[t]) : cbLog[t][i].result.answer = Undefined
            /\ ctx[t] = LastCall(t).context

\* a response with intent 'None' over the threshold, with two entities and
\* an answer, was processed on a context that had neither entity
C1_Witness ==
    /\ ProcessReturned(1)
    /\ pc[1] = "done"
    /\ LastCall(1).response.intent = NONE
    /\ LastCall(1).response.score = 8
    /\ LastCall(1).response.answer = HELLO
    /\ NamesOf(LastCall(1).response.entities) = Names
    /\ LastCall(1).context = EmptyContext

\* C2 as stated: when the response is accepted, every entity name is a key
\* of the context holding the option of the last entity of that name, and
\* every key that is not an entity name keeps its previous value.
C2_Original ==
    \A t \in Turns :
        (ProcessReturned(t) /\ ~BelowOrNone(LastCall(t).response)) =>
            LET r == LastCall(t).response
                before == LastCall(t).context
            IN  /\ \A n \in NamesOf(r.entities) :
                       ctx[t][n] = r.entities[LastIndex(r.entities, n)].option
                /\ \A k \in Keys \ NamesOf(r.entities) : ctx[t][k] = before[k]

\* C2 amended: when the response is accepted, every entity name is a key of
\* the context holding the option of the last entity of that name; the
\* marker $modified is true when the entity list is not empty and keeps its
\* value when it is empty; every other key keeps its previous value.
C2_LastEntityWins ==
    \A t \in Turns :
        (ProcessReturned(t) /\ ~BelowOrNone(LastCall(t).response)) =>
            LET r == LastCall(t).response
                before == LastCall(t).context
            IN  /\ \A n \in NamesOf(r.entities) :
                       ctx[t][n] = r.entities[LastIndex(r.entities, n)].option
                /\ ctx[t]["$modified"] =
                       IF r.entities # <<>> THEN True ELSE before["$modified"]
                /\ \A k \in Keys \ (NamesOf(r.entities) \cup {"$modified"}) :
                       ctx[t][k] = before[k]

\* an accepted response named the same entity twice with different options,
\* on a context that held that key and another one
C2_Witness ==
    /\ ProcessReturned(1)
    /\ LastCall(1).response.score = 7
    /\ LastCall(1).response.intent = GREET
    /\ LastCall(1).response.entities =
           <<[entity |-> "name", option |-> BOB],
             [entity |-> "name", option |-> ANN]>>
    /\ LastCall(1).context["name"] = BOB
    /\ LastCall(1).context["city"] = BOB
    /\ ctx[1]["name"] = ANN
    /\ ctx[1]["city"] = BOB


\* the call's own recognition was accepted and merged at least one entity
\* into the context it had loaded
OwnMerge(t) ==
    /\ getLog[t] = <<"resolved">>
    /\ engineLog[t] # <<>>
    /\ engineLog[t][1].status = "resolved"
    /\ ~BelowOrNone(engineLog[t][1].response)
    /\ engineLog[t][1].response.entities # <<>>

\* the call's own recognition completed on the loaded context without a merge
OwnNoMerge(t) ==
    /\ getLog[t] = <<"resolved">>
    /\ engineLog[t] # <<>>
    /\ engineLog[t][1].status = "resolved"
    /\ \/ BelowOrNone(engineLog[t][1].response)
       \/ engineLog[t][1].response.entities = <<>>

\* C3 as stated: in every reachable state no context handed to
\* setConversationContext, and no context the store holds, contains the
\* marker $modified.
C3_Original ==
    /\ \A t \in Turns : \A i \in 1..Len(setLog[t]) :
           setLog[t][i].context["$modified"] = Undefined
    /\ stored["$modified"] = Undefined

\* C3 amended: no context handed to setConversationContext contains the
\* marker at the call, and a store that keeps copies never holds it; a store
\* that hands out its own object holds the marker only while a call that
\* merged entities into that object has not yet resumed after process.
C3_MarkerStripped ==
    /\ \A t \in Turns : \A i \in 1..Len(setLog[t]) :
           setLog[t][i].context["$modified"] = Undefined
    /\ ~storeAliases => stored["$modified"] = Undefined
    /\ stored["$modified"] # Undefined =>
           \E t \in Turns : aliased[t] /\ pc[t] = "processed" /\ OwnMerge(t)

\* both calls merged an entity and saved, and the saves completed
C3_Witness ==
    /\ \A t \in Turns : /\ OwnMerge(t)
                        /\ Len(setLog[t]) = 1
                        /\ setLog[t][1].status = "resolved"
                        /\ pc[t] = "done"
    /\ stored["name"] = ANN

\* C4 as stated: a call invokes setConversationContext at most once and only
\* if its own recognition was accepted and merged at least one entity; a
\* call whose recognition is rejected, or accepted with no entity, makes no
\* save call and invokes the callback directly.
C4_Original ==
    \A t \in Turns :
        /\ Len(setLog[t]) <= 1
        /\ setLog[t] # <<>> => OwnMerge(t)
        /\ (OwnNoMerge(t) /\ pc[t] \notin {"engine", "processed"}) =>
               /\ setLog[t] = <<>>
               /\ Len(cbLog[t]) = 1

\* C4 amended: a call invokes setConversationContext at most once, and only
\* after its load and its recognition completed with the marker set on the
\* context object it holds.  With a store that hands out copies this is
\* exactly when the call's own recognition was accepted and merged at least
\* one entity.  With a store that hands out its own object the marker may be
\* another call's: the call saves only if it or another call of the
\* conversation merged an entity.
C4_SaveOnlyIfMarked ==
    \A t \in Turns :
        /\ Len(setLog[t]) <= 1
        /\ setLog[t] # <<>> =>
               \/ OwnMerge(t)
               \/ /\ storeAliases
                  /\ OwnNoMerge(t)
                  /\ \E u \in Turns \ {t} : OwnMerge(u)
        /\ (~storeAliases /\ pc[t] \in {"saving", "done", "unhandled"}) =>
               /\ OwnMerge(t) => Len(setLog[t]) = 1
               /\ OwnNoMerge(t) => setLog[t] = <<>> /\ Len(cbLog[t]) = 1

\* with a store that hands out copies, one call merged an entity and saved
\* once, and the other was rejected with an entity in its response, made no
\* save call and got its callback
C4_Witness ==
    /\ ~storeAliases
    /\ OwnMerge(1) /\ Len(setLog[1]) = 1 /\ pc[1] = "done"
    /\ OwnNoMerge(2) /\ setLog[2] = <<>> /\ pc[2] = "done"
    /\ engineLog[2][1].response.score = 4
    /\ engineLog[2][1].response.entities # <<>>
    /\ Len(cbLog[1]) = 1 /\ Len(cbLog[2]) = 1


\* what the callback gets for the response r of the engine
Delivery(r) == [err |-> "null", result |-> ExpectedResult(r)]

LoadFailed(t) == getLog[t] = <<"rejected">>

\* C5: if getConversationContext rejects, the callback gets the result
\* process computes from a fresh empty context, no dialogId is stamped on
\* the stored context, and setConversationContext is not invoked, even when
\* the recognition is accepted and carries entities.
C5_LoadFailureFallsBack ==
    \A t \in Turns :
        LoadFailed(t) =>
            /\ Len(engineLog[t]) = 1
            /\ engineLog[t][1].context = EmptyContext
            /\ setLog[t] = <<>>
            /\ stored["dialogId"] \in {Undefined, OLD}
            /\ stored["$modified"] = Undefined
            /\ IF engineLog[t][1].status = "resolved"
               THEN cbLog[t] = <<Delivery(engineLog[t][1].response)>>
               ELSE cbLog[t] = <<>>

\* the load failed on a store that holds a context of earlier turns, the
\* recognition was accepted with an entity, and the callback got the answer
C5_Witness ==
    /\ LoadFailed(1)
    /\ pc[1] = "done"
    /\ engineLog[1][1].response.score = 8
    /\ engineLog[1][1].response.intent = GREET
    /\ engineLog[1][1].response.entities # <<>>
    /\ cbLog[1][1].result.answer = HELLO
    /\ stored["dialogId"] = OLD
    /\ stored["name"] = BOB

SaveCompleted(t) ==
    /\ setLog[t] # <<>>
    /\ setLog[t][1].status \in {"resolved", "rejected"}

\* C6: when a turn attempted persistence and the save has completed, the
\* callback has been invoked, each time with a null error and the turn's
\* recognition result, whether setConversationContext resolved or rejected.
C6_SaveOutcomeHidden ==
    \A t \in Turns :
        SaveCompleted(t) =>
            /\ cbLog[t] # <<>>
            /\ \A i \in 1..Len(cbLog[t]) :
                   cbLog[t][i] = Delivery(engineLog[t][1].response)

\* the save was rejected and the callback got the accepted result
C6_Witness ==
    /\ setLog[1] # <<>>
    /\ setLog[1][1].status = "rejected"
    /\ pc[1] = "done"
    /\ Len(cbLog[1]) = 1
    /\ cbLog[1][1].err = "null"
    /\ cbLog[1][1].result.answer = HELLO

EngineFailedAfterLoad(t) ==
    /\ getLog[t] = <<"resolved">>
    /\ engineLog[t] # <<>>
    /\ engineLog[t][1].status = "rejected"

NoText(t) == kind[t] = "recognize" /\ session[t].msg # "text"

\* C8 as stated: on a turn without message text the callback gets score 0.0
\* and the intent 'None'.
C8_Original ==
    \A t \in Turns :
        NoText(t) =>
            /\ cbLog[t] # <<>>
            /\ \A i \in 1..Len(cbLog[t]) :
                   /\ cbLog[t][i].result.score = 0
                   /\ cbLog[t][i].result.intent = NONE

\* C8 amended: on a turn without message text the callback gets the result
\* { score: 0.0, intent: undefined }: the intent is absent, not the string
\* 'None' that process compares with.
C8_NeutralResult ==
    \A t \in Turns :
        NoText(t) =>
            /\ cbLog[t] # <<>>
            /\ \A i \in 1..Len(cbLog[t]) :
                   /\ cbLog[t][i].err = "null"
                   /\ cbLog[t][i].result.score = 0
                   /\ cbLog[t][i].result.intent = Undefined
                   /\ DOMAIN cbLog[t][i].result = {"score", "intent"}

\* recognize returned on a session whose message text is the empty string
C8_Witness ==
    /\ NoText(1)
    /\ session[1].msg = "empty"
    /\ pc[1] = "done"
    /\ Len(cbLog[1]) = 1

\* C9: on a turn without message text the callback is invoked once within
\* the recognize call, and neither getConversationContext nor the engine nor
\* setConversationContext is invoked.
C9_NoTextNoCalls ==
    \A t \in Turns :
        NoText(t) =>
            /\ Len(cbLog[t]) = 1
            /\ pc[t] \in {"done", "threw"}
            /\ getLog[t] = <<>>
            /\ engineLog[t] = <<>>
            /\ setLog[t] = <<>>

\* recognize returned on a session that has a message without text, with a
\* store that holds a context of earlier turns
C9_Witness ==
    /\ NoText(1)
    /\ session[1].msg = "notext"
    /\ pc[1] = "done"
    /\ Len(cbLog[1]) = 1
    /\ getLog[1] = <<>>
    /\ stored["name"] = ANN


\* the override ran on a turn with text, onBeginRouting did not veto, and
\* recognize has invoked the routing callback
RoutedWithText(t) ==
    /\ kind[t] = "disambiguate"
    /\ session[t].msg = "text"
    /\ hooks["onBeginRouting"] # "falsy"
    /\ cbLog[t] # <<>>

HookCalled(t, h) == \E i \in 1..Len(hookLog[t]) : hookLog[t][i] = h

Dispatched(t) ==
    \E i \in 1..Len(actLog[t]) : actLog[t][i].op \in {"beginDialog", "send"}

DefaultRouted(t) ==
    \E i \in 1..Len(actLog[t]) :
        actLog[t][i].op \in {"selectRoute", "routeToActiveDialog"}

\* C10: with routing activated, on a turn with text that onBeginRouting did
\* not veto, the answer is dispatched if and only if the result's score is
\* strictly greater than routingThreshold, its answer is present and not
\* empty, and onRecognizedRouting is absent or returns truthy; in every other
\* case of score and answer onUnrecognizedRouting is consulted if present
\* and, unless it vetoes, default routing runs and no answer is dispatched.
C10_DispatchIffOverThreshold ==
    \A t \in Turns :
        RoutedWithText(t) =>
            LET res == cbLog[t][1].result
                over == /\ res.score > bot.routingThreshold
                        /\ res.answer # Undefined
                        /\ res.answer # EMPTY
            IN  /\ Dispatched(t) <=>
                       (over /\ hooks["onRecognizedRouting"] # "falsy")
                /\ over =>
                       /\ HookCalled(t, "onRecognizedRouting") <=>
                              hooks["onRecognizedRouting"] # "absent"
                       /\ ~HookCalled(t, "onUnrecognizedRouting")
                       /\ ~DefaultRouted(t)
                       /\ Dispatched(t) =>
                              /\ Len(actLog[t]) = 1
                              /\ actLog[t][1].arg = res.answer
                /\ ~over =>
                       /\ HookCalled(t, "onUnrecognizedRouting") <=>
                              hooks["onUnrecognizedRouting"] # "absent"
                       /\ ~HookCalled(t, "onRecognizedRouting")
                       /\ DefaultRouted(t) <=>
                              hooks["onUnrecognizedRouting"] # "falsy"
                       /\ Len(actLog[t]) <= 1

\* the result's score equals routingThreshold and its answer is present:
\* onUnrecognizedRouting was consulted and default routing ran
C10_Witness ==
    /\ RoutedWithText(1)
    /\ bot.routingThreshold = 7
    /\ cbLog[1][1].result.score = 7
    /\ cbLog[1][1].result.answer = HELLO
    /\ hooks["onUnrecognizedRouting"] = "truthy"
    /\ HookCalled(1, "onUnrecognizedRouting")
    /\ DefaultRouted(1)
    /\ pc[1] = "done"


\* the installed override was invoked for the call
Overridden(t) == kind[t] = "disambiguate"

\* the call made no use of the store or the engine and got no callback
NoRecognition(t) ==
    /\ getLog[t] = <<>>
    /\ engineLog[t] = <<>>
    /\ setLog[t] = <<>>
    /\ cbLog[t] = <<>>

\* C11: with routing activated, if onBeginRouting is present and returns a
\* falsy value the override does nothing more for the turn: no context load,
\* engine call or save, no other hook call, no beginDialog, no send and no
\* default routing; if onBeginRouting is absent it is not called and the
\* turn continues, into recognition when it has text and into the no-text
\* branch when it has none.
C11_BeginVetoEndsTurn ==
    \A t \in Turns :
        Overridden(t) =>
            /\ hooks["onBeginRouting"] = "falsy" =>
                   /\ NoRecognition(t)
                   /\ hookLog[t] = <<"onBeginRouting">>
                   /\ actLog[t] = <<>>
                   /\ pc[t] = "done"
            /\ hooks["onBeginRouting"] = "absent" =>
                   /\ ~HookCalled(t, "onBeginRouting")
                   /\ IF session[t].msg = "text"
                      THEN getLog[t] # <<>>
                      ELSE /\ HookCalled(t, "onNoTextRouting") <=>
                                  hooks["onNoTextRouting"] # "absent"
                           /\ DefaultRouted(t) <=>
                                  hooks["onNoTextRouting"] # "falsy"

\* onBeginRouting vetoed a turn with text while every other hook was present
\* and would have let the turn continue
C11_Witness ==
    /\ Overridden(1)
    /\ session[1].msg = "text"
    /\ hooks = [h \in HookNames |->
                   IF h = "onBeginRouting" THEN "falsy" ELSE "truthy"]
    /\ hookLog[1] = <<"onBeginRouting">>
    /\ pc[1] = "done"


\* the answer handed to processAnswer: the answer of the result the routing
\* callback got
DispatchedAnswer(t) == cbLog[t][1].result.answer

SlashPrefixed(answer) == SubSeq(answer, 1, 1) = <<"/">>

\* C12 as stated: a dispatched answer that starts with a slash begins the
\* dialog named by the rest of the answer ("/H" begins "H") and sends no
\* message; any other answer is sent as message text and begins no dialog;
\* one primitive is invoked, once.
C12_Original ==
    \A t \in Turns :
        (Overridden(t) /\ Dispatched(t)) =>
            /\ Len(actLog[t]) = 1
            /\ actLog[t][1] =
                   IF SlashPrefixed(DispatchedAnswer(t))
                   THEN [op |-> "beginDialog", arg |-> Tail(DispatchedAnswer(t))]
                   ELSE [op |-> "send", arg |-> DispatchedAnswer(t)]

\* C12 amended: a dispatched answer that starts with a slash is handed whole,
\* slash included, to beginDialog ("/H" begins the dialog "/H") and no
\* message is sent; any other answer is sent as message text and begins no
\* dialog; one primitive is invoked, once.
C12_SlashBeginsDialog ==
    \A t \in Turns :
        (Overridden(t) /\ Dispatched(t)) =>
            /\ Len(actLog[t]) = 1
            /\ actLog[t][1] =
                   IF SlashPrefixed(DispatchedAnswer(t))
                   THEN [op |-> "beginDialog", arg |-> DispatchedAnswer(t)]
                   ELSE [op |-> "send", arg |-> DispatchedAnswer(t)]

\* a result over the routing threshold with the answer "/H" was dispatched
\* after onRecognizedRouting let it pass
C12_Witness ==
    /\ Overridden(1)
    /\ cbLog[1] # <<>>
    /\ cbLog[1][1].result.score = 8
    /\ DispatchedAnswer(1) = HELP
    /\ hooks["onRecognizedRouting"] = "truthy"
    /\ Len(actLog[1]) = 1
    /\ actLog[1][1].op = "beginDialog"
    /\ pc[1] = "done"


\* the override was invoked on a turn without message text
OverriddenNoText(t) == Overridden(t) /\ session[t].msg # "text"

\* what the claim says of the no-text branch
NoTextBranch(t) ==
    /\ HookCalled(t, "onNoTextRouting") <=> hooks["onNoTextRouting"] # "absent"
    /\ actLog[t] =
           IF hooks["onNoTextRouting"] = "falsy" THEN <<>>
           ELSE IF session[t].route
                THEN <<[op |-> "selectRoute", arg |-> EMPTY]>>
                ELSE <<[op |-> "routeToActiveDialog", arg |-> EMPTY]>>

\* C13 as stated: with routing activated, a turn without text triggers no
\* recognition and neither onRecognizedRouting nor onUnrecognizedRouting;
\* onNoTextRouting is called if present, a falsy return ends the turn with
\* no routing action, and otherwise default routing dispatches to the best
\* route when one exists and to the active dialog when none exists.
C13_Original ==
    \A t \in Turns :
        OverriddenNoText(t) =>
            /\ NoRecognition(t)
            /\ ~HookCalled(t, "onRecognizedRouting")
            /\ ~HookCalled(t, "onUnrecognizedRouting")
            /\ NoTextBranch(t)

\* C13 amended: with routing activated, a turn without text triggers no
\* recognition and neither onRecognizedRouting nor onUnrecognizedRouting;
\* unless onBeginRouting vetoed the turn, onNoTextRouting is called if
\* present, a falsy return ends the turn with no routing action, and
\* otherwise default routing dispatches to the best route when one exists
\* and to the active dialog when none exists; after a veto of onBeginRouting
\* neither onNoTextRouting nor default routing runs.
C13_NoTextRouting ==
    \A t \in Turns :
        OverriddenNoText(t) =>
            /\ NoRecognition(t)
            /\ ~HookCalled(t, "onRecognizedRouting")
            /\ ~HookCalled(t, "onUnrecognizedRouting")
            /\ hooks["onBeginRouting"] # "falsy" => NoTextBranch(t)
            /\ hooks["onBeginRouting"] = "falsy" =>
                   /\ ~HookCalled(t, "onNoTextRouting")
                   /\ actLog[t] = <<>>

\* a turn whose message text is the empty string, with a best route among
\* the proposed routes: onNoTextRouting let it pass and the route was
\* selected
C13_Witness ==
    /\ OverriddenNoText(1)
    /\ session[1].msg = "empty"
    /\ session[1].route
    /\ hooks["onBeginRouting"] = "truthy"
    /\ hooks["onNoTextRouting"] = "truthy"
    /\ hookLog[1] = <<"onBeginRouting", "onNoTextRouting">>
    /\ actLog[1] = <<[op |-> "selectRoute", arg |-> EMPTY]>>


\* C14: after setBot with activateRouting false (or omitted) the recognizer
\* is registered and the host's disambiguation slot does not hold the
\* override: however the host then uses the recognizer, no routing hook is
\* called and no answer is dispatched or routed by the recognizer.
C14_NoOverrideWithoutActivate ==
    (bot.recognizer /\ ~bot.activateRouting) =>
        /\ ~bot.override
        /\ bot.routingThreshold = DefaultRoutingThreshold
        /\ \A t \in Turns :
               /\ ~Overridden(t)
               /\ hookLog[t] = <<>>
               /\ actLog[t] = <<>>

\* setBot did not activate routing while all four hooks were present; the
\* host then called recognize, which delivered an answer over the threshold
\* to the host's callback
C14_Witness ==
    /\ bot.recognizer
    /\ ~bot.activateRouting
    /\ \A h \in HookNames : hooks[h] # "absent"
    /\ kind[1] = "recognize"
    /\ pc[1] = "done"
    /\ cbLog[1] # <<>>
    /\ cbLog[1][1].result.score = 8
    /\ cbLog[1][1].result.answer = HELP


\* the entries of a stack that start with the two characters "*:"
PrefixedEntries(stack) ==
    {i \in 1..Len(stack) :
         Len(stack[i]) >= 2 /\ SubSeq(stack[i], 1, 2) = <<"*", ":">>}

\* what the claim says getDialogId returns for a session
ExpectedDialogId(s) ==
    IF s.stack = NoStack \/ PrefixedEntries(s.stack) = {}
    THEN <<>>
    ELSE LET first == CHOOSE i \in PrefixedEntries(s.stack) :
                          \A j \in PrefixedEntries(s.stack) : i <= j
         IN  [k \in 1..(Len(s.stack[first]) - 2) |-> s.stack[first][k + 2]]

\* the then-handler of recognize stamped the loaded context
Stamped(t) == getLog[t] = <<"resolved">> /\ engineLog[t] # <<>>

Loaded(t) == engineLog[t][1].context
Saved(t) == setLog[t][1].context

\* the call saved and setConversationContext resolved
SaveResolved(t) == setLog[t] # <<>> /\ setLog[t][1].status = "resolved"

\* C16: the recognizer does not serialize the calls of one conversation.
\* With a store that hands out independent copies, what a call saves is the
\* snapshot it loaded with its own entities merged in, whatever other calls
\* saved in between, and the store holds what the last resolved save handed
\* it; so an interleaving in which two calls load the same context, merge
\* different entities and both save loses the entity of one of them.
C16_SavesOwnSnapshot ==
    ~storeAliases =>
        /\ \A t \in Turns :
               setLog[t] # <<>> =>
                   LET r == engineLog[t][1].response
                   IN  \A k \in Keys :
                           Saved(t)[k] =
                               IF k \in NamesOf(r.entities)
                               THEN r.entities[LastIndex(r.entities, k)].option
                               ELSE IF k = "$modified" THEN Undefined
                               ELSE Loaded(t)[k]
        /\ \/ stored = EmptyContext
           \/ \E t \in Turns : SaveResolved(t) /\ stored = Saved(t)

\* the lost update: with a store that hands out copies, both calls loaded
\* the same context, the first merged "name" and the second "city", both
\* saves resolved, and the stored context has no "name"
C16_Witness ==
    /\ ~storeAliases
    /\ \A t \in {1, 2} : OwnMerge(t) /\ SaveResolved(t) /\ pc[t] = "done"
    /\ Loaded(1) = Loaded(2)
    /\ NamesOf(engineLog[1][1].response.entities) = {"name"}
    /\ NamesOf(engineLog[2][1].response.entities) = {"city"}
    /\ Saved(1)["name"] = ANN
    /\ stored["name"] = Undefined
    /\ stored["city"] = ANN


\* the external calls of the call that have not completed
PendingCalls(t) ==
    {<<"get", i>> : i \in {j \in 1..Len(getLog[t]) : getLog[t][j] = "pending"}}
    \cup {<<"engine", i>> :
              i \in {j \in 1..Len(engineLog[t]) :
                         engineLog[t][j].status = "pending"}}
    \cup {<<"set", i>> :
              i \in {j \in 1..Len(setLog[t]) : setLog[t][j].status = "pending"}}

\* recognize was called on a session with message text
WithText(t) == kind[t] = "recognize" /\ session[t].msg = "text"

\* the order of the external calls, without what the engine is handed
CallsInOrder(t) ==
    /\ Cardinality(PendingCalls(t)) <= 1
    /\ Len(getLog[t]) = 1
    /\ engineLog[t] # <<>> => getLog[t][1] # "pending"
    /\ setLog[t] # <<>> =>
           \A i \in 1..Len(engineLog[t]) : engineLog[t][i].status # "pending"
    /\ (cbLog[t] # <<>> /\ setLog[t] # <<>>) =>
           \A i \in 1..Len(setLog[t]) : setLog[t][i].status # "pending"

\* C17 as stated: within a recognize call with text the external calls are
\* ordered and do not overlap: the load completes before the engine is
\* invoked, the context passed to the engine carries
\* dialogId = getDialogId(turn), the engine call completes before the save
\* is invoked, and the callback is invoked only after the save attempt, if
\* any, has completed.
C17_Original ==
    \A t \in Turns :
        WithText(t) =>
            /\ CallsInOrder(t)
            /\ \A i \in 1..Len(engineLog[t]) :
                   engineLog[t][i].context["dialogId"] =
                       ExpectedDialogId(session[t])

\* C17 amended: the same order of calls; the context passed to the engine
\* carries dialogId = getDialogId(turn) when it is the context a resolved
\* load returned.  The call the catch handler makes, after a rejected load,
\* a rejected engine call or a callback that raised, is handed a fresh empty
\* context with no dialogId.
C17_CallsInOrder ==
    \A t \in Turns :
        WithText(t) =>
            /\ CallsInOrder(t)
            /\ \A i \in 1..Len(engineLog[t]) :
                   IF i = 1 /\ getLog[t][1] = "resolved"
                   THEN engineLog[t][i].context["dialogId"] =
                            ExpectedDialogId(session[t])
                   ELSE engineLog[t][i].context = EmptyContext

\* a turn on the stack ["l:i", "*:m"] loaded a context of an earlier turn,
\* was recognized with an entity, saved, and got its callback after the
\* save resolved
C17_Witness ==
    /\ WithText(1)
    /\ session[1].stack = <<LIBI, MAIN>>
    /\ getLog[1] = <<"resolved">>
    /\ Len(engineLog[1]) = 1
    /\ engineLog[1][1].context["dialogId"] = <<"m">>
    /\ engineLog[1][1].context["name"] = BOB
    /\ SaveResolved(1)
    /\ Len(cbLog[1]) = 1
    /\ pc[1] = "done"


\* C18: for every recognize call the callback is invoked at most once and
\* the engine is invoked at most once, whatever the outcome of the load, of
\* the engine call and of the save, and also when the callback raises.
C18_Original ==
    \A t \in Turns :
        kind[t] = "recognize" =>
            /\ Len(cbLog[t]) <= 1
            /\ Len(engineLog[t]) <= 1

\* the load, the engine call and the save all resolved, the callback raised
\* when invoked after the save, and the catch handler of the save invoked
\* it a second time with the same result
C18_Witness ==
    /\ kind[1] = "recognize"
    /\ cbMayRaise
    /\ getLog[1] = <<"resolved">>
    /\ Len(engineLog[1]) = 1
    /\ engineLog[1][1].status = "resolved"
    /\ SaveResolved(1)
    /\ Len(cbLog[1]) = 2
    /\ cbLog[1][1] = cbLog[1][2]


\* the callback was invoked, the first time with the result of the call's
\* first resolved engine call
Answered(t) ==
    /\ cbLog[t] # <<>>
    /\ \E i \in 1..Len(engineLog[t]) :
           /\ engineLog[t][i].status = "resolved"
           /\ \A j \in 1..(i - 1) : engineLog[t][j].status = "rejected"
           /\ cbLog[t][1] = Delivery(engineLog[t][i].response)

\* the engine failed for good: the call the catch handler made rejected
EngineFailed(t) ==
    /\ cbLog[t] = <<>>
    /\ pc[t] = "unhandled"
    /\ LastCall(t).status = "rejected"

\* C19: for a recognize call on a turn with text, if the load resolves or
\* rejects, the engine call completes and the save, when attempted,
\* resolves or rejects, then the callback is eventually invoked with the
\* call's recognition result, unless the engine fails; the callback stays
\* uninvoked only if an external call never completes or the engine fails.
C19_CallbackEventually ==
    \A t \in Turns : WithText(t) ~> (Answered(t) \/ EngineFailed(t))

\* the load rejected, the engine resolved for the catch handler, and the
\* callback got its result
C19_Witness ==
    /\ WithText(1)
    /\ LoadFailed(1)
    /\ Answered(1)
    /\ cbLog[1][1].result.answer = HELLO
    /\ pc[1] = "done"


\* the hooks consulted after onBeginRouting
BranchHooks == {"onRecognizedRouting", "onUnrecognizedRouting",
                "onNoTextRouting"}

BranchHookCalls(t) ==
    {i \in 1..Len(hookLog[t]) : hookLog[t][i] \in BranchHooks}

\* a hook that was called for the call returned a falsy value
VetoTaken(t) ==
    \E i \in 1..Len(hookLog[t]) : hooks[hookLog[t][i]] = "falsy"

TerminalActions == {"beginDialog", "send", "selectRoute", "routeToActiveDialog"}

====
